---------------------------- MODULE Spec2Model ----------------------------
(***************************************************************************)
(* A model of the download orchestration of src/main.py                    *)
(* (class YouTubeDownloaderBot): the per-user registry downloading_users,  *)
(* the cookie file on disk, the inline keyboards offered in the chat, the   *)
(* working directory, and the handlers process_download, handle_callback / *)
(* perform_download / send_video / compress_video, update_cookies,         *)
(* handle_document and load_cookies_on_startup.                            *)
(*                                                                         *)
(* Every handler invocation is a task with a program counter.  A step of   *)
(* a task is a stretch of the handler between two blocking calls or two    *)
(* accesses to shared state; tasks interleave at those points (the         *)
(* concurrent dispatch of section 5 of the specification).                 *)
(*                                                                         *)
(* Strings are sequences of tokens: a token is a run of characters that    *)
(* the code never looks inside, except through the tables below.           *)
(***************************************************************************)
EXTENDS Integers, Sequences, FiniteSets, TLC

(***************************************************************************)
(* Bounds of the model.                                                    *)
(***************************************************************************)
\* Handler invocations that may be in flight at the same time.
MaxTasks == 2
\* Keyboards (format menus) that may be on display in the chats at once.
MaxKeyboards == 1
\* The configured maximum media size in MB (Config.MAX_VIDEO_SIZE); the
\* configuration module is not part of the sources, the value is an instance.
MAX_VIDEO_SIZE == 2
\* The longest list of variants the extractor returns.
MaxFormats == 2

(***************************************************************************)
(* Program constants.                                                      *)
(***************************************************************************)
\* 1024 * 1024, the factor of the size check of process_download.
MiB == 1048576

Tasks == 1 .. MaxTasks
Users == {1, 2}
\* Config.ADMIN_IDS: the privileged requesters.
ADMIN_IDS == {1}

\* The cookie file (Config.COOKIES_FILE) when it does not exist.
NoFile == [exists |-> FALSE, content |-> <<>>]

(***************************************************************************)
(* URLs and validate_youtube_url.                                          *)
(***************************************************************************)
Schemes == {"https://", "http://"}
\* The four whitelisted forms, after the optional scheme and "www.".
Patterns == {"youtube.com/watch?v=", "youtu.be/", "youtube.com/embed/",
             "youtube.com/shorts/"}
\* Characters of the class [a-zA-Z0-9_-].
IdChars == {"a", "b", "7", "_", "-"}

SkipOptional(s, set) == IF Len(s) > 0 /\ s[1] \in set THEN Tail(s) ELSE s

\* re.match(pattern, url): the pattern matches a prefix of url.
MatchPattern(url, form) ==
    LET r == SkipOptional(SkipOptional(url, Schemes), {"www."})
    IN  Len(r) >= 2 /\ r[1] = form /\ r[2] \in IdChars

validate_youtube_url(url) == \E form \in Patterns : MatchPattern(url, form)

UrlShort == <<"https://", "youtu.be/", "a">>
UrlUnderscore == <<"youtu.be/", "a", "_", "b">>
UrlWatch == <<"https://", "www.", "youtube.com/watch?v=", "-", "_", "7">>
UrlOther == <<"https://", "example.com/video">>
\* The URLs requesters send.
URLs == {UrlShort, UrlOther}


(***************************************************************************)
(* Callback data: encode_url, decode_url and the parsing of                *)
(* handle_callback.                                                        *)
(***************************************************************************)
\* urllib.parse.quote(token, safe=''): letters, digits and "_.-~" are kept,
\* every other character becomes %XX.
QuoteToken(tok) ==
    CASE tok = "https://" -> "https%3A%2F%2F"
      [] tok = "http://" -> "http%3A%2F%2F"
      [] tok = "youtu.be/" -> "youtu.be%2F"
      [] tok = "youtube.com/watch?v=" -> "youtube.com%2Fwatch%3Fv%3D"
      [] tok = "youtube.com/embed/" -> "youtube.com%2Fembed%2F"
      [] tok = "youtube.com/shorts/" -> "youtube.com%2Fshorts%2F"
      [] tok = "example.com/video" -> "example.com%2Fvideo"
      [] OTHER -> tok

\* urllib.parse.unquote(token): every %XX becomes its character.
UnquoteToken(tok) ==
    CASE tok = "https%3A%2F%2F" -> "https://"
      [] tok = "http%3A%2F%2F" -> "http://"
      [] tok = "youtu.be%2F" -> "youtu.be/"
      [] tok = "youtube.com%2Fwatch%3Fv%3D" -> "youtube.com/watch?v="
      [] tok = "youtube.com%2Fembed%2F" -> "youtube.com/embed/"
      [] tok = "youtube.com%2Fshorts%2F" -> "youtube.com/shorts/"
      [] tok = "example.com%2Fvideo" -> "example.com/video"
      [] OTHER -> tok

encode_url(url) == [i \in 1 .. Len(url) |-> QuoteToken(url[i])]

decode_url(encoded) == [i \in 1 .. Len(encoded) |-> UnquoteToken(encoded[i])]

\* str(height), one token per digit.
HeightString(h) ==
    CASE h = 1080 -> <<"1", "0", "8", "0">>
      [] h = 720 -> <<"7", "2", "0">>
      [] h = 480 -> <<"4", "8", "0">>
      [] h = 360 -> <<"3", "6", "0">>

\* f"dl_{self.encode_url(url)}_{suffix}"
CallbackData(url, suffix) == <<"dl", "_">> \o encode_url(url) \o <<"_">> \o suffix

RECURSIVE Split(_)
\* s.split("_"): the pieces between the "_" tokens, empty pieces kept.
Split(s) ==
    IF \A i \in 1 .. Len(s) : s[i] # "_"
    THEN <<s>>
    ELSE LET i == CHOOSE k \in 1 .. Len(s) :
                      s[k] = "_" /\ \A j \in 1 .. (k - 1) : s[j] # "_"
         IN  <<SubSeq(s, 1, i - 1)>> \o Split(SubSeq(s, i + 1, Len(s)))

RECURSIVE Join(_)
\* "_".join(parts)
Join(parts) ==
    IF Len(parts) = 0 THEN <<>>
    ELSE IF Len(parts) = 1 THEN parts[1]
    ELSE parts[1] \o <<"_">> \o Join(Tail(parts))

\* data.startswith("dl_")
StartsWithDl(data) == Len(data) >= 2 /\ data[1] = "dl" /\ data[2] = "_"

\* A parsing that takes the piece after "dl" for the encoded URL instead of
\* joining parts[1:-1]: a URL with an underscore is cut short.
ParseCallbackSecondPiece(data) ==
    IF data = <<"download">> THEN [act |-> "prompt", url |-> <<>>, quality |-> <<>>]
    ELSE IF data = <<"settings">> THEN [act |-> "settings", url |-> <<>>, quality |-> <<>>]
    ELSE IF StartsWithDl(data)
    THEN LET parts == Split(data)
         IN  IF Len(parts) >= 3
             THEN [act |-> "perform", url |-> decode_url(parts[2]),
                   quality |-> parts[Len(parts)]]
             ELSE [act |-> "none", url |-> <<>>, quality |-> <<>>]
    ELSE [act |-> "none", url |-> <<>>, quality |-> <<>>]

\* The branch handle_callback takes on data, and the arguments it passes to
\* perform_download.
ParseCallback(data) ==
    IF data = <<"download">> THEN [act |-> "prompt", url |-> <<>>, quality |-> <<>>]
    ELSE IF data = <<"settings">> THEN [act |-> "settings", url |-> <<>>, quality |-> <<>>]
    ELSE IF StartsWithDl(data)
    THEN LET parts == Split(data)
         IN  IF Len(parts) >= 3
             THEN [act |-> "perform",
                   url |-> decode_url(Join(SubSeq(parts, 2, Len(parts) - 1))),
                   quality |-> parts[Len(parts)]]
             ELSE IF Len(parts) = 2 /\ parts[2] = <<"audio">>
             THEN [act |-> "perform",
                   url |-> decode_url(SubSeq(data, 3, Len(data))),
                   quality |-> <<"audio">>]
             ELSE [act |-> "none", url |-> <<>>, quality |-> <<>>]
    ELSE [act |-> "none", url |-> <<>>, quality |-> <<>>]

(***************************************************************************)
(* The extractor's metadata and the keyboard process_download builds.      *)
(***************************************************************************)
MaxBytes == MAX_VIDEO_SIZE * MiB

\* video_info['filesize']: the key missing, None, or a number of bytes.
FileSizes == {[kind |-> "absent", bytes |-> 0], [kind |-> "none", bytes |-> 0],
              [kind |-> "bytes", bytes |-> MaxBytes],
              [kind |-> "bytes", bytes |-> MaxBytes + 1]}

\* video_info['formats'] of the sample videos; height 0 stands for a missing
\* or None height (an audio stream), which fmt.get('height') finds falsy.
FormatsHd == << [height |-> 720, ext |-> "mp4"],
                [height |-> 0, ext |-> "m4a"],
                [height |-> 720, ext |-> "webm"] >>
FormatsSd == << [height |-> 480, ext |-> "webm"] >>
FormatLists == {FormatsHd, FormatsSd}

MediaInfos == [filesize : FileSizes, formats : FormatLists]

\* The variants the extractor may list: videos of two heights in the two
\* recognised containers, a video in another container, and an audio stream
\* (no height) in a recognised container.
Variants == {[height |-> 720, ext |-> "mp4"], [height |-> 720, ext |-> "webm"],
             [height |-> 480, ext |-> "webm"], [height |-> 360, ext |-> "3gp"],
             [height |-> 0, ext |-> "webm"]}

\* Every list of at most MaxFormats variants, in every order.
VariantLists == UNION {[1 .. n -> Variants] : n \in 0 .. MaxFormats}

\* Metadata with no declared size and any of these lists.
CatalogInfos == [filesize : {[kind |-> "absent", bytes |-> 0]}, formats : VariantLists]

\* video_info.get('filesize', 0)
DeclaredSize(info) == IF info.filesize.kind = "absent" THEN 0 ELSE info.filesize.bytes

\* A size check that compares whole megabytes: a size just over the maximum
\* passes it.
TooLargeWholeMB(size) == size \div (1024 * 1024) > MAX_VIDEO_SIZE

\* video_info.get('filesize', 0) > Config.MAX_VIDEO_SIZE * 1024 * 1024, for a
\* filesize that is a number.
TooLarge(size) == size > MAX_VIDEO_SIZE * 1024 * 1024

RECURSIVE VideoRowsAll(_, _, _, _)
\* The loop over the formats without the test of line 176: one button per
\* video variant.
VideoRowsAll(url, formats, unique_resolutions, keyboard) ==
    IF formats = <<>> THEN keyboard
    ELSE LET fmt == Head(formats)
         IN  IF fmt.height # 0 /\ fmt.ext \in {"mp4", "webm"}
             THEN VideoRowsAll(url, Tail(formats), unique_resolutions,
                               Append(keyboard,
                                      [text |-> HeightString(fmt.height) \o <<"p">>,
                                       callback_data |->
                                           CallbackData(url, HeightString(fmt.height))]))
             ELSE VideoRowsAll(url, Tail(formats), unique_resolutions, keyboard)

RECURSIVE VideoRows(_, _, _, _)
\* The loop over the formats: one button per new resolution label.
VideoRows(url, formats, unique_resolutions, keyboard) ==
    IF formats = <<>> THEN keyboard
    ELSE LET fmt == Head(formats)
             resolution == HeightString(fmt.height) \o <<"p">>
         IN  IF fmt.height # 0 /\ fmt.ext \in {"mp4", "webm"}
                /\ resolution \notin unique_resolutions
             THEN VideoRows(url, Tail(formats),
                            unique_resolutions \cup {resolution},
                            Append(keyboard,
                                   [text |-> resolution,
                                    callback_data |->
                                        CallbackData(url, HeightString(fmt.height))]))
             ELSE VideoRows(url, Tail(formats), unique_resolutions, keyboard)

\* The keyboard of process_download: the video rows, then "Audio Only".
BuildKeyboard(url, formats) ==
    Append(VideoRows(url, formats, {}, <<>>),
           [text |-> <<"Audio Only">>,
            callback_data |-> CallbackData(url, <<"audio">>)])

(***************************************************************************)
(* Cookie file contents and the format check of download_cookies_from_url. *)
(***************************************************************************)
\* line.lower(), for the lines of the sample contents.
LowerToken(tok) ==
    CASE tok = "# Netscape HTTP Cookie File" -> "# netscape http cookie file"
      [] tok = "# HTTP Cookie File" -> "# http cookie file"
      [] tok = ".YouTube.com SID=old" -> ".youtube.com sid=old"
      [] tok = ".youtube.com SID=new" -> ".youtube.com sid=new"
      [] tok = "<HTML>" -> "<html>"
      [] OTHER -> tok

\* marker in line, for a lower-case line of the sample contents.
ContainsMarker(tok, marker) ==
    CASE marker = "youtube.com" ->
             tok \in {".youtube.com sid=old", ".youtube.com sid=new"}
      [] marker = "# http" -> tok = "# http cookie file"
      [] OTHER -> FALSE

\* "youtube.com" in cookies_content.lower() or "# http" in cookies_content.lower()
IsCookieFormat(content) ==
    \E i \in 1 .. Len(content) :
        \/ ContainsMarker(LowerToken(content[i]), "youtube.com")
        \/ ContainsMarker(LowerToken(content[i]), "# http")

CookiesOld == <<"# Netscape HTTP Cookie File", ".YouTube.com SID=old">>
CookiesNew == <<"# HTTP Cookie File", ".youtube.com SID=new">>
LoginPage == <<"<HTML>">>
\* What the refresh source or an uploaded document may hold.
Bodies == {CookiesNew, LoginPage}

(***************************************************************************)
(* State.                                                                  *)
(***************************************************************************)
VARIABLES
    downloading_users,  \* self.downloading_users
    cookies_file,       \* the file Config.COOKIES_FILE: [exists, content]
    COOKIE_URL,         \* Config.COOKIE_URL, "" when not configured
    keyboards,          \* the format menus on display: [user, url, buttons]
    files,              \* the files in Config.DOWNLOAD_PATH: [path, bytes]
    tasks               \* the handler invocations in flight

vars == <<downloading_users, cookies_file, COOKIE_URL, keyboards, files, tasks>>

\* A task slot with no handler running in it.
Idle == [kind |-> "idle", pc |-> "idle", user |-> 0, url |-> <<>>,
         quality |-> <<>>, size |-> 0, outcome |-> "none", content |-> <<>>,
         creds |-> NoFile, matched |-> FALSE, cause |-> "none",
         format |-> <<>>, filepath |-> <<>>, file_to_send |-> <<>>,
         formats |-> <<>>]

\* A handler that has sent its last reply and is about to return.
Done(kind, user, outcome) ==
    [Idle EXCEPT !.kind = kind, !.pc = "done", !.user = user, !.outcome = outcome]

\* The bot is constructed (load_cookies_on_startup has returned) and polls.
Serving == \A t \in Tasks : tasks[t].kind # "startup"

\* The slot the dispatcher runs the next handler in.
FreeTask(t) ==
    /\ tasks[t] = Idle
    /\ \A s \in Tasks : s < t => tasks[s] # Idle

Init ==
    /\ downloading_users = {}
    /\ cookies_file \in {NoFile, [exists |-> TRUE, content |-> CookiesOld]}
    /\ COOKIE_URL \in {"", "https://batbin.me/x"}
    /\ keyboards = {}
    /\ files = {}
    /\ tasks = [t \in Tasks |->
                  IF t = 1 THEN [Idle EXCEPT !.kind = "startup", !.pc = "st_load"]
                  ELSE Idle]

(***************************************************************************)
(* process_download.                                                       *)
(***************************************************************************)
\* process_download without the membership test of line 144.
ProcessDownloadCheckNoTest(t, u, url) ==
    /\ Serving
    /\ FreeTask(t)
    /\ tasks' = [tasks EXCEPT ![t] =
          IF ~validate_youtube_url(url)
          THEN Done("process_download", u, "invalid_url")
          ELSE [Idle EXCEPT !.kind = "process_download", !.pc = "pd_acquire",
                            !.user = u, !.url = url]]
    /\ UNCHANGED <<downloading_users, cookies_file, COOKIE_URL, keyboards, files>>

\* process_download with the early returns inside the try block: the finally
\* clause discards the requester of a refused request.
ProcessDownloadCheckInTry(t, u, url) ==
    /\ Serving
    /\ FreeTask(t)
    /\ tasks' = [tasks EXCEPT ![t] =
          IF u \in downloading_users THEN Done("process_download", u, "busy")
          ELSE IF ~validate_youtube_url(url)
          THEN Done("process_download", u, "invalid_url")
          ELSE [Idle EXCEPT !.kind = "process_download", !.pc = "pd_acquire",
                            !.user = u, !.url = url]]
    /\ downloading_users' =
          IF u \in downloading_users \/ ~validate_youtube_url(url)
          THEN downloading_users \ {u} ELSE downloading_users
    /\ UNCHANGED <<cookies_file, COOKIE_URL, keyboards, files>>

\* Lines 141-151: the two early returns, taken before the try block.
ProcessDownloadCheck(t, u, url) ==
    /\ Serving
    /\ FreeTask(t)
    /\ tasks' = [tasks EXCEPT ![t] =
          IF u \in downloading_users THEN Done("process_download", u, "busy")
          ELSE IF ~validate_youtube_url(url)
          THEN Done("process_download", u, "invalid_url")
          ELSE [Idle EXCEPT !.kind = "process_download", !.pc = "pd_acquire",
                            !.user = u, !.url = url]]
    /\ UNCHANGED <<downloading_users, cookies_file, COOKIE_URL, keyboards, files>>

\* Lines 154-155: the requester is recorded.
ProcessDownloadAcquire(t) ==
    /\ tasks[t].pc = "pd_acquire"
    /\ downloading_users' = downloading_users \cup {tasks[t].user}
    /\ tasks' = [tasks EXCEPT ![t].pc = "pd_info"]
    /\ UNCHANGED <<cookies_file, COOKIE_URL, keyboards, files>>

\* What extract_info and download may give: a result, None (errors are
\* ignored), or DownloadError with a text that asks for a sign-in or cookies
\* ("auth") or any other text ("other").
ExtractResults == {"info", "none", "auth", "other"}

\* The reply of lines 158-198: found is whether get_video_info returned a
\* result (info), sent whether the edit that shows the keyboard went through.
InfoOutcome(found, info, sent) ==
    IF ~found THEN "no_info"
    ELSE IF info.filesize.kind = "none" THEN "error"
    ELSE IF TooLarge(DeclaredSize(info)) THEN "too_large"
    ELSE IF sent THEN "offered"
    ELSE "error"

\* Lines 158-198: get_video_info calls the extractor (with the cookie file,
\* when there is one) and turns every exception into None (lines 398-400);
\* the size check; the keyboard; the except clause.  infos is the metadata
\* the extractor may return.
ProcessDownloadInfo(t, infos) ==
    /\ tasks[t].pc = "pd_info"
    /\ \E result \in ExtractResults, info \in infos, sent \in BOOLEAN :
          LET found == result = "info"
              outcome == InfoOutcome(found, info, sent)
              menu == [user |-> tasks[t].user, url |-> tasks[t].url,
                       buttons |-> BuildKeyboard(tasks[t].url, info.formats)]
          IN  /\ outcome = "offered" => Cardinality(keyboards \cup {menu}) <= MaxKeyboards
              /\ keyboards' = IF outcome = "offered" THEN keyboards \cup {menu}
                              ELSE keyboards
              /\ tasks' = [tasks EXCEPT ![t].pc = "pd_finally",
                                        ![t].outcome = outcome,
                                        ![t].cause = IF found THEN "none" ELSE result,
                                        ![t].formats =
                                            IF outcome = "offered"
                                               \/ (outcome = "error" /\ ~sent
                                                   /\ info.filesize.kind # "none")
                                            THEN info.formats ELSE <<>>,
                                        ![t].size = IF found /\ info.filesize.kind # "none"
                                                    THEN DeclaredSize(info) ELSE 0]
    /\ UNCHANGED <<downloading_users, cookies_file, COOKIE_URL, files>>

\* Line 200, the finally clause: the requester is discarded and the handler
\* returns.
ProcessDownloadFinally(t) ==
    /\ tasks[t].pc = "pd_finally"
    /\ downloading_users' = downloading_users \ {tasks[t].user}
    /\ tasks' = [tasks EXCEPT ![t] = Idle]
    /\ UNCHANGED <<cookies_file, COOKIE_URL, keyboards, files>>

\* A handler returns to the dispatcher.
Return(t) ==
    /\ tasks[t].pc = "done"
    /\ tasks' = [tasks EXCEPT ![t] = Idle]
    /\ UNCHANGED <<downloading_users, cookies_file, COOKIE_URL, keyboards, files>>


(***************************************************************************)
(* handle_callback and perform_download.                                   *)
(***************************************************************************)
\* The callback data a client may send: the buttons the bot builds, and data
\* no button of the bot carries (a stale or a crafted query).
CallbackDatas ==
    {<<"download">>, <<"settings">>, <<"dl", "_", "audio">>}
    \cup {CallbackData(url, suffix) :
             url \in URLs, suffix \in {<<"7", "2", "0">>, <<"audio">>}}

\* The menus on display to user u that carry a button with this data.
MenusWith(u, data) ==
    {k \in keyboards : k.user = u /\ \E i \in 1 .. Len(k.buttons) :
                                        k.buttons[i].callback_data = data}

\* Lines 202-268: the query is parsed and, for "dl_" data, perform_download
\* starts: it edits the message the query came from (the menu, when it is
\* still on display, goes away).  The edit of a message that is no menu may
\* raise BadRequest (lines 296-298).
HandleCallback(t, u, data) ==
    /\ Serving
    /\ FreeTask(t)
    /\ LET q == ParseCallback(data)
       IN  IF q.act # "perform"
           THEN /\ tasks' = [tasks EXCEPT ![t] = Done("handle_callback", u, q.act)]
                /\ UNCHANGED keyboards
           ELSE \/ \E k \in MenusWith(u, data) :
                      /\ keyboards' = keyboards \ {k}
                      /\ tasks' = [tasks EXCEPT ![t] =
                            [Idle EXCEPT !.kind = "perform_download",
                                         !.pc = "dl_extract", !.user = u,
                                         !.url = q.url, !.quality = q.quality,
                                         !.matched = TRUE]]
                \/ /\ MenusWith(u, data) = {}
                   /\ UNCHANGED keyboards
                   /\ \E edited \in BOOLEAN :
                         tasks' = [tasks EXCEPT ![t] =
                            IF edited
                            THEN [Idle EXCEPT !.kind = "perform_download",
                                              !.pc = "dl_extract", !.user = u,
                                              !.url = q.url, !.quality = q.quality]
                            ELSE Done("perform_download", u, "error")]
    /\ UNCHANGED <<downloading_users, cookies_file, COOKIE_URL, files>>

\* perform_download or send_video has sent its last reply, for the given
\* cause, and is about to return.
DoneJob(task, outcome, cause) ==
    [Done("perform_download", task.user, outcome) EXCEPT !.cause = cause]

\* quality[:-1]
AllButLast(quality) == SubSeq(quality, 1, Len(quality) - 1)

\* ydl_opts['format'] (line 251).
FormatSelector(quality) ==
    IF quality = <<"audio">> THEN <<"bestaudio/best">>
    ELSE <<"best[height<=">> \o AllButLast(quality) \o <<"]">>

\* Lines 242-274 and their except clauses: the extractor is given the cookie
\* file when it exists, loads it and resolves the URL.
PerformExtract(t) ==
    /\ tasks[t].pc = "dl_extract"
    /\ \E result \in ExtractResults :
          tasks' = [tasks EXCEPT ![t] =
             IF result = "info"
             THEN [@ EXCEPT !.pc = "dl_fetch", !.creds = cookies_file,
                            !.format = FormatSelector(tasks[t].quality)]
             ELSE DoneJob(@, CASE result = "none" -> "error"
                               [] result = "auth" -> "auth_required"
                               [] result = "other" -> "download_error",
                          result)]
    /\ UNCHANGED <<downloading_users, cookies_file, COOKIE_URL, keyboards, files>>

(***************************************************************************)
(* The working directory Config.DOWNLOAD_PATH, the fetch, send_video and   *)
(* compress_video.  A path is the sequence <<title, extension>>.           *)
(***************************************************************************)
\* info['title'] of the sample videos.
Titles == {"Video"}
\* info['ext'] of the fetched file.
Exts == {".mp4", ".webm"}
\* The transport limit of send_video, in MB (line 315).
TransportLimitMB == 50
\* The sizes of the fetched files: the limit exactly, and one byte more.
FetchedSizes == {TransportLimitMB * MiB, TransportLimitMB * MiB + 1}

\* ydl.prepare_filename(info) under outtmpl '{DOWNLOAD_PATH}/%(title)s.%(ext)s'.
prepare_filename(title, ext) == <<title, ext>>

\* os.path.exists(path)
Exists(fs, path) == \E f \in fs : f.path = path

\* os.path.getsize(path)
getsize(fs, path) == (CHOOSE f \in fs : f.path = path).bytes

\* os.remove(path) of an existing file.
remove(fs, path) == {f \in fs : f.path # path}

\* A file is written at path, over any file already there.
WriteFile(fs, path, bytes) == remove(fs, path) \cup {[path |-> path, bytes |-> bytes]}

\* os.path.splitext(f)[0] in filepath: the files of the directory whose name
\* without the extension occurs in filepath.
MatchingFiles(fs, filepath) ==
    {f.path : f \in {g \in fs : g.path[2] \in Exts /\ g.path[1] = filepath[1]}}

\* A size check on whole megabytes (getsize // (1024 * 1024) > 50): a file
\* one byte over the limit is not compressed.
OverTransportLimitWholeMB(bytes) == bytes \div (1024 * 1024) > TransportLimitMB

\* file_size > 50 with file_size = getsize / (1024 * 1024), a true division:
\* the quotient exceeds 50 when its whole part does, or when its whole part
\* is 50 and a remainder is left.
OverTransportLimit(bytes) ==
    \/ bytes \div (1024 * 1024) > TransportLimitMB
    \/ bytes \div (1024 * 1024) = TransportLimitMB /\ bytes % (1024 * 1024) > 0

\* filepath.replace(".mp4", "_compressed.mp4")
CompressedPath(filepath) ==
    [i \in 1 .. Len(filepath) |->
        IF filepath[i] = ".mp4" THEN "_compressed.mp4" ELSE filepath[i]]

\* Lines 276-279 and the except clauses of lines 284-298: the file name is
\* prepared and the fetch runs; it writes the file, raises DownloadError, or
\* (errors being ignored) returns with nothing written.  exts and sizes are
\* the extensions and the sizes the fetched files may have.
PerformFetch(t, exts, sizes) ==
    /\ tasks[t].pc = "dl_fetch"
    /\ \E title \in Titles, ext \in exts, result \in ExtractResults :
          LET filename == prepare_filename(title, ext)
              job == [Idle EXCEPT !.kind = "perform_download", !.pc = "sv_size",
                                  !.user = tasks[t].user,
                                  !.matched = tasks[t].matched,
                                  !.filepath = filename]
          IN  CASE result = "info" ->
                     \E bytes \in sizes :
                        /\ files' = WriteFile(files, filename, bytes)
                        /\ tasks' = [tasks EXCEPT ![t] = job]
                [] result = "none" ->
                     /\ UNCHANGED files
                     /\ tasks' = [tasks EXCEPT ![t] = job]
                [] OTHER ->
                     /\ UNCHANGED files
                     /\ tasks' = [tasks EXCEPT ![t] =
                           DoneJob(tasks[t],
                                   IF result = "auth" THEN "auth_required"
                                   ELSE "download_error", result)]
    /\ UNCHANGED <<downloading_users, cookies_file, COOKIE_URL, keyboards>>

\* Lines 302-321: the file is looked up (under its name or, when that is
\* missing, among the files of the directory that match it) and measured.
SendVideoSize(t) ==
    /\ tasks[t].pc = "sv_size"
    /\ LET filepath == tasks[t].filepath
           found == IF Exists(files, filepath) THEN {filepath}
                    ELSE MatchingFiles(files, filepath)
       IN  IF found = {}
           THEN tasks' = [tasks EXCEPT ![t] = DoneJob(@, "error", "not_found")]
           ELSE \E path \in found :
                   LET file_size == getsize(files, path)
                   IN  tasks' = [tasks EXCEPT ![t] =
                          IF OverTransportLimit(file_size)
                          THEN [@ EXCEPT !.pc = "sv_compress", !.filepath = path,
                                         !.size = file_size]
                          ELSE [@ EXCEPT !.pc = "sv_send", !.filepath = path,
                                         !.size = file_size,
                                         !.file_to_send = path]]
    /\ UNCHANGED <<downloading_users, cookies_file, COOKIE_URL, keyboards, files>>

\* Lines 358-382, compress_video: an output file left from before is removed,
\* then ffmpeg runs.  It writes the output, or exits with an error
\* (CalledProcessError: the original path is returned), or cannot be started
\* (FileNotFoundError, which compress_video does not catch and send_video
\* reports at lines 354-356).
CompressVideo(t) ==
    /\ tasks[t].pc = "sv_compress"
    /\ LET filepath == tasks[t].filepath
           output_path == CompressedPath(filepath)
           cleared == remove(files, output_path)
       IN  \E result \in {"ok", "CalledProcessError", "FileNotFoundError"} :
              CASE result = "ok" ->
                     /\ Exists(cleared, filepath)
                     /\ files' = WriteFile(cleared, output_path, TransportLimitMB * MiB)
                     /\ tasks' = [tasks EXCEPT ![t] =
                           [@ EXCEPT !.pc = "sv_send", !.file_to_send = output_path]]
                [] result = "CalledProcessError" ->
                     /\ files' = cleared
                     /\ tasks' = [tasks EXCEPT ![t] =
                           [@ EXCEPT !.pc = "sv_send", !.file_to_send = filepath,
                                     !.cause = "encoder_error"]]
                [] result = "FileNotFoundError" ->
                     /\ files' = cleared
                     /\ tasks' = [tasks EXCEPT ![t] = DoneJob(@, "error", "encoder_absent")]
    /\ UNCHANGED <<downloading_users, cookies_file, COOKIE_URL, keyboards>>

\* Lines 324-356: the file is opened and sent (as audio or as video, by the
\* quality; either call sends or raises); after "Download complete" the
\* working files are removed (a failing os.remove ends the cleanup).  The
\* except clauses reply and remove nothing.
SendVideoSend(t) ==
    /\ tasks[t].pc = "sv_send"
    /\ LET filepath == tasks[t].filepath
           file_to_send == tasks[t].file_to_send
       IN  IF ~Exists(files, file_to_send)
           THEN /\ tasks' = [tasks EXCEPT ![t] = DoneJob(@, "error", "not_found")]
                /\ UNCHANGED files
           ELSE \E result \in {"sent", "too_big", "bad_request", "raise"} :
                   /\ tasks' = [tasks EXCEPT ![t] =
                         DoneJob(@, CASE result = "sent" -> "complete"
                                      [] result = "too_big" -> "too_big"
                                      [] result = "bad_request" -> "send_error"
                                      [] result = "raise" -> "error",
                                 @.cause)]
                   /\ files' = IF result # "sent" THEN files
                               ELSE IF ~Exists(files, filepath) THEN files
                               ELSE remove(remove(files, filepath), file_to_send)
    /\ UNCHANGED <<downloading_users, cookies_file, COOKIE_URL, keyboards>>

(***************************************************************************)
(* The cookie file: load_cookies_on_startup, update_cookies,               *)
(* download_cookies_from_url and handle_document.                          *)
(***************************************************************************)
\* Lines 35-49: the refresh runs when COOKIE_URL is set.
LoadCookiesOnStartup(t) ==
    /\ tasks[t].pc = "st_load"
    /\ tasks' = [tasks EXCEPT ![t] =
                    IF COOKIE_URL # "" THEN [@ EXCEPT !.pc = "rf_fetch"]
                    ELSE Done("startup", 0, "no_cookie_url")]
    /\ UNCHANGED <<downloading_users, cookies_file, COOKIE_URL, keyboards, files>>

\* Lines 490-505: the two early returns, then the refresh.
UpdateCookies(t, u) ==
    /\ Serving
    /\ FreeTask(t)
    /\ tasks' = [tasks EXCEPT ![t] =
          IF u \notin ADMIN_IDS THEN Done("update_cookies", u, "not_admin")
          ELSE IF COOKIE_URL = "" THEN Done("update_cookies", u, "no_cookie_url")
          ELSE [Idle EXCEPT !.kind = "update_cookies", !.pc = "rf_fetch",
                            !.user = u]]
    /\ UNCHANGED <<downloading_users, cookies_file, COOKIE_URL, keyboards, files>>

\* What session.get(url) may give: an exception, a status other than 200, or
\* status 200 with a body.
Responses ==
    {[status |-> "raise", body |-> <<>>], [status |-> "404", body |-> <<>>]}
    \cup {[status |-> "200", body |-> b] : b \in Bodies}

\* download_cookies_from_url with the file opened before the format check: a
\* body that fails the check leaves the file truncated.
RefreshFetchOpenFirst(t) ==
    /\ tasks[t].pc = "rf_fetch"
    /\ \E response \in Responses :
          IF response.status # "200"
          THEN /\ tasks' = [tasks EXCEPT ![t] = Done(@.kind, @.user, "refresh_failed")]
               /\ UNCHANGED cookies_file
          ELSE IF ~IsCookieFormat(response.body)
          THEN /\ tasks' = [tasks EXCEPT ![t] = Done(@.kind, @.user, "refresh_failed")]
               /\ cookies_file' = [exists |-> TRUE, content |-> <<>>]
          ELSE /\ tasks' = [tasks EXCEPT ![t] =
                               [@ EXCEPT !.pc = "rf_open", !.content = response.body]]
               /\ UNCHANGED cookies_file
    /\ UNCHANGED <<downloading_users, COOKIE_URL, keyboards, files>>

\* download_cookies_from_url and load_cookies_on_startup without their except
\* clauses: a failed fetch ends the handler, or the constructor, with the
\* exception.
RefreshFetchRaises(t) ==
    /\ tasks[t].pc = "rf_fetch"
    /\ \E response \in Responses :
          tasks' = [tasks EXCEPT ![t] =
             IF response.status # "200" \/ ~IsCookieFormat(response.body)
             THEN [@ EXCEPT !.pc = "raised", !.outcome = "refresh_failed"]
             ELSE [@ EXCEPT !.pc = "rf_open", !.content = response.body]]
    /\ UNCHANGED <<downloading_users, cookies_file, COOKIE_URL, keyboards, files>>

\* Lines 53-66 and 73-81: the fetch and the three ways it fails before the
\* file is opened.
RefreshFetch(t) ==
    /\ tasks[t].pc = "rf_fetch"
    /\ \E response \in Responses :
          tasks' = [tasks EXCEPT ![t] =
             IF response.status # "200" \/ ~IsCookieFormat(response.body)
             THEN Done(@.kind, @.user, "refresh_failed")
             ELSE [@ EXCEPT !.pc = "rf_open", !.content = response.body]]
    /\ UNCHANGED <<downloading_users, cookies_file, COOKIE_URL, keyboards, files>>

\* Line 68: open(Config.COOKIES_FILE, 'w') creates or truncates the file.
RefreshOpen(t) ==
    /\ tasks[t].pc = "rf_open"
    /\ cookies_file' = [exists |-> TRUE, content |-> <<>>]
    /\ tasks' = [tasks EXCEPT ![t].pc = "rf_write"]
    /\ UNCHANGED <<downloading_users, COOKIE_URL, keyboards, files>>

\* Lines 69-72: the content reaches the file when the with block closes it.
RefreshWrite(t) ==
    /\ tasks[t].pc = "rf_write"
    /\ cookies_file' = [exists |-> TRUE, content |-> tasks[t].content]
    /\ tasks' = [tasks EXCEPT ![t] = Done(@.kind, @.user, "refresh_ok")]
    /\ UNCHANGED <<downloading_users, COOKIE_URL, keyboards, files>>

\* handle_document without the test of line 467: every requester's text
\* document is saved.
HandleDocumentAnyUser(t, u, is_txt) ==
    /\ Serving
    /\ FreeTask(t)
    /\ tasks' = [tasks EXCEPT ![t] =
          IF ~is_txt THEN Done("handle_document", u, "not_txt")
          ELSE [Idle EXCEPT !.kind = "handle_document", !.pc = "doc_download",
                            !.user = u]]
    /\ UNCHANGED <<downloading_users, cookies_file, COOKIE_URL, keyboards, files>>

\* Lines 463-474: the two early returns.
HandleDocument(t, u, is_txt) ==
    /\ Serving
    /\ FreeTask(t)
    /\ tasks' = [tasks EXCEPT ![t] =
          IF u \notin ADMIN_IDS THEN Done("handle_document", u, "not_admin")
          ELSE IF ~is_txt THEN Done("handle_document", u, "not_txt")
          ELSE [Idle EXCEPT !.kind = "handle_document", !.pc = "doc_download",
                            !.user = u]]
    /\ UNCHANGED <<downloading_users, cookies_file, COOKIE_URL, keyboards, files>>

\* Lines 476-488: the document is saved as the cookie file, or the download
\* raises.
DocumentDownload(t) ==
    /\ tasks[t].pc = "doc_download"
    /\ \/ \E body \in Bodies :
             /\ cookies_file' = [exists |-> TRUE, content |-> body]
             /\ tasks' = [tasks EXCEPT ![t] = Done(@.kind, @.user, "uploaded")]
       \/ /\ UNCHANGED cookies_file
          /\ tasks' = [tasks EXCEPT ![t] = Done(@.kind, @.user, "error")]
    /\ UNCHANGED <<downloading_users, COOKIE_URL, keyboards, files>>

(***************************************************************************)
(* The specification.                                                      *)
(***************************************************************************)
Next ==
    \E t \in Tasks :
        \/ \E u \in Users, url \in URLs : ProcessDownloadCheck(t, u, url)
        \/ ProcessDownloadAcquire(t)
        \/ ProcessDownloadInfo(t, MediaInfos)
        \/ ProcessDownloadFinally(t)
        \/ \E u \in Users, data \in CallbackDatas : HandleCallback(t, u, data)
        \/ PerformExtract(t)
        \/ PerformFetch(t, {".mp4"}, {TransportLimitMB * MiB})
        \/ SendVideoSize(t)
        \/ SendVideoSend(t)
        \/ LoadCookiesOnStartup(t)
        \/ \E u \in Users : UpdateCookies(t, u)
        \/ RefreshFetch(t)
        \/ RefreshOpen(t)
        \/ RefreshWrite(t)
        \/ \E u \in Users, is_txt \in BOOLEAN : HandleDocument(t, u, is_txt)
        \/ DocumentDownload(t)
        \/ Return(t)

\* The whole program, with fetched files that fit the transport limit (so
\* that send_video never calls compress_video).
Spec == Init /\ [][Next]_vars

(***************************************************************************)
(* The delivery pipeline with files of both extensions, at and above the   *)
(* transport limit.  It starts in a serving state of the program: the bot  *)
(* was constructed without COOKIE_URL, and a /download of user 1 has been  *)
(* answered with the menu; from there on only callback queries arrive.     *)
(***************************************************************************)
MenuShown ==
    [user |-> 1, url |-> UrlShort, buttons |-> BuildKeyboard(UrlShort, FormatsHd)]

DeliveryInit ==
    /\ downloading_users = {}
    /\ cookies_file = [exists |-> TRUE, content |-> CookiesOld]
    /\ COOKIE_URL = ""
    /\ keyboards = {MenuShown}
    /\ files = {}
    /\ tasks = [t \in Tasks |-> Idle]

DeliveryNext ==
    \E t \in Tasks :
        \/ \E u \in Users, data \in CallbackDatas : HandleCallback(t, u, data)
        \/ PerformExtract(t)
        \/ PerformFetch(t, Exts, FetchedSizes)
        \/ SendVideoSize(t)
        \/ CompressVideo(t)
        \/ SendVideoSend(t)
        \/ Return(t)

DeliverySpec == DeliveryInit /\ [][DeliveryNext]_vars

(***************************************************************************)
(* The keyboards process_download builds, for every list of variants.  It  *)
(* starts in the serving state of a bot constructed without COOKIE_URL;    *)
(* from there on only download requests arrive.                            *)
(***************************************************************************)
CatalogInit ==
    /\ downloading_users = {}
    /\ cookies_file = [exists |-> TRUE, content |-> CookiesOld]
    /\ COOKIE_URL = ""
    /\ keyboards = {}
    /\ files = {}
    /\ tasks = [t \in Tasks |-> Idle]

CatalogNext ==
    \E t \in Tasks :
        \/ \E u \in Users, url \in URLs : ProcessDownloadCheck(t, u, url)
        \/ ProcessDownloadAcquire(t)
        \/ ProcessDownloadInfo(t, CatalogInfos)
        \/ ProcessDownloadFinally(t)
        \/ Return(t)

CatalogSpec == CatalogInit /\ [][CatalogNext]_vars

(***************************************************************************)
(* The callback data from the button to the download, for URLs whose video *)
(* id holds underscores and hyphens.  It starts in the serving state of a  *)
(* bot constructed without COOKIE_URL; requesters ask for these URLs and   *)
(* press the buttons of the menus (also after the menu is gone); the       *)
(* fetched files fit the transport limit.                                  *)
(***************************************************************************)
PayloadURLs == {UrlUnderscore, UrlWatch}

\* Metadata with no declared size and the formats of the sample videos.
PayloadInfos == [filesize : {[kind |-> "absent", bytes |-> 0]}, formats : FormatLists]

\* The callback data of the buttons process_download builds for them.
ButtonDatas ==
    {CallbackData(url, suffix) :
        url \in PayloadURLs,
        suffix \in {HeightString(720), HeightString(480), <<"audio">>}}

PayloadInit == CatalogInit

PayloadNext ==
    \E t \in Tasks :
        \/ \E u \in Users, url \in PayloadURLs : ProcessDownloadCheck(t, u, url)
        \/ ProcessDownloadAcquire(t)
        \/ ProcessDownloadInfo(t, PayloadInfos)
        \/ ProcessDownloadFinally(t)
        \/ \E u \in Users, data \in ButtonDatas : HandleCallback(t, u, data)
        \/ PerformExtract(t)
        \/ PerformFetch(t, {".mp4"}, {TransportLimitMB * MiB})
        \/ SendVideoSize(t)
        \/ SendVideoSend(t)
        \/ Return(t)

PayloadSpec == PayloadInit /\ [][PayloadNext]_vars


(***************************************************************************)
(* The Job states of the specification, read off the handlers' positions.  *)
(***************************************************************************)
\* InfoFetching: process_download has recorded the requester and is in
\* get_video_info.
InfoFetching(t) == tasks[t].pc = "pd_info"

\* AwaitingSelection: a menu of u is on display.
AwaitingSelection(u) == {k \in keyboards : k.user = u}

\* perform_download is running.
Performing(t) ==
    tasks[t].pc \in {"dl_extract", "dl_fetch", "sv_size", "sv_compress", "sv_send"}

\* Downloading .. Delivering: perform_download is running for a selection
\* made on a menu that was on display (a Job that was awaiting selection).
Downloading(t) == Performing(t) /\ tasks[t].matched

\* The live (non-terminal) Jobs of requester u.
LiveJobs(u) ==
    Cardinality({t \in Tasks : tasks[t].user = u /\ (InfoFetching(t) \/ Downloading(t))})
    + Cardinality(AwaitingSelection(u))

\* The extractor has been called with the task's URL: get_video_info has
\* returned in process_download, or extract_info has in perform_download.
ExtractorInvoked(t) == tasks[t].pc \in {"pd_finally", "dl_fetch"}

\* A refresh has opened the cookie file and not yet closed it.
RefreshWriting == \E t \in Tasks : tasks[t].pc = "rf_write"

(***************************************************************************)
(* Claims.                                                                 *)
(***************************************************************************)
\* C1: every requester has at most one live Job: while a Job of theirs is
\* fetching info, awaiting selection or downloading, no further request or
\* selection event of theirs starts another.
C1_AtMostOneLiveJob == \A u \in Users : LiveJobs(u) <= 1

\* C2: the membership test of process_download fails a request exactly when
\* the requester's slot is held; a request that passes it (with a valid URL)
\* records the requester, and the release frees the slot for the next one.
C2_TryAcquire ==
    [][\A t \in Tasks :
          /\ (tasks[t] = Idle /\ tasks'[t].kind = "process_download") =>
                /\ (tasks'[t].outcome = "busy") <=> (tasks'[t].user \in downloading_users)
                /\ (tasks'[t].pc = "pd_acquire") <=>
                      /\ tasks'[t].user \notin downloading_users
                      /\ tasks'[t].outcome = "none"
                /\ downloading_users' = downloading_users
          /\ (tasks[t].pc = "pd_acquire" /\ tasks'[t] # tasks[t]) =>
                /\ tasks'[t].pc = "pd_info"
                /\ tasks[t].user \in downloading_users'
          /\ (tasks[t].pc = "pd_finally" /\ tasks'[t] # tasks[t]) =>
                tasks[t].user \notin downloading_users']_vars

\* A second request of a requester has been refused while the first holds the
\* slot.
C2_Witness ==
    \E t1, t2 \in Tasks :
        /\ tasks[t1].kind = "process_download" /\ tasks[t1].outcome = "busy"
        /\ tasks[t2].pc = "pd_info" /\ tasks[t2].user = tasks[t1].user
        /\ tasks[t1].user \in downloading_users

\* C3: a slot is held as long as its Job is live: the requester of a live
\* Job is in the registry (the release does not come before Complete or
\* Failed).
C3_SlotHeldWhileLive == \A u \in Users : LiveJobs(u) > 0 => u \in downloading_users

\* C4: a request that is refused (slot held, or invalid URL) leaves the
\* registry as it was, when it is refused and when its handler returns.
C4_RejectedNoEffect ==
    [][\A t \in Tasks :
          /\ (tasks[t] = Idle /\ tasks'[t].kind = "process_download"
              /\ tasks'[t].outcome \in {"busy", "invalid_url"}) =>
                downloading_users' = downloading_users
          /\ (tasks[t].kind = "process_download" /\ tasks[t].pc = "done"
              /\ tasks'[t] # tasks[t]) =>
                downloading_users' = downloading_users]_vars

\* A request was refused and has returned or is about to, and the slot of
\* the requester's running Job is still held.
C4_Witness ==
    \E t1, t2 \in Tasks :
        /\ tasks[t1].kind = "process_download" /\ tasks[t1].pc = "done"
        /\ tasks[t1].outcome = "busy"
        /\ tasks[t2].pc = "pd_finally" /\ tasks[t2].user = tasks[t1].user
        /\ tasks[t2].user \in downloading_users

\* C5: a refresh that fails (the fetch raises, the status is not 200, the
\* content is no cookie jar) has not touched the cookie file: it fails in
\* the step of the fetch, before the file is opened, and that step leaves
\* the file as it was.
C5_FailedRefreshNoOp ==
    [][\A t \in Tasks :
          (tasks'[t].outcome = "refresh_failed" /\ tasks[t].outcome # "refresh_failed") =>
              /\ tasks[t].pc = "rf_fetch"
              /\ cookies_file' = cookies_file]_vars

\* A refresh has failed and the working cookie file is in place.
C5_Witness ==
    \E t \in Tasks :
        /\ tasks[t].outcome = "refresh_failed"
        /\ cookies_file = [exists |-> TRUE, content |-> CookiesOld]

\* C6: the cookie file, when present and not being written by a refresh, holds
\* content that passed the format check.
C6_OnlyValidatedInstalled ==
    (cookies_file.exists /\ ~RefreshWriting) => IsCookieFormat(cookies_file.content)

\* C7: a Job that reads the credentials sees a complete credential set (no
\* file, or one of the contents that were installed), the previous or the
\* new one, never an empty or half-written one.
C7_ReadersSeeCompleteSet ==
    \A t \in Tasks :
        tasks[t].pc = "dl_fetch" =>
            \/ tasks[t].creds = NoFile
            \/ tasks[t].creds.content \in Bodies \cup {CookiesOld}

\* C8: the extractor is never called with a URL that fails the whitelist.
C8_ExtractorOnlyValidUrls ==
    \A t \in Tasks : ExtractorInvoked(t) => validate_youtube_url(tasks[t].url)

\* C9: perform_download runs only for a selection made on a menu that was on
\* display to the requester and carries the selected option.
C9_SelectionOnlyFromMenu == \A t \in Tasks : Performing(t) => tasks[t].matched

\* C10: a Job whose declared size exceeds the maximum ends its info step with
\* the too-large reply, and no menu is put on display for it.
C10_TooLargeNeverOffered ==
    [][\A t \in Tasks :
          (tasks[t].pc = "pd_info" /\ tasks'[t].pc = "pd_finally"
           /\ tasks'[t].size > MaxBytes) =>
              /\ tasks'[t].outcome = "too_large"
              /\ keyboards' = keyboards]_vars

\* A Job whose declared size exceeds the maximum has been refused.
C10_Witness ==
    \E t \in Tasks :
        /\ tasks[t].pc = "pd_finally" /\ tasks[t].size > MaxBytes
        /\ tasks[t].outcome = "too_large"

\* A perform_download that is in send_video, with its file looked up.
InSendVideo(t) == tasks[t].pc \in {"sv_compress", "sv_send"}

\* C11: when a Job that has a working file ends (Complete, or Failed by a
\* send error, a too-large transport error or a compression error), the
\* original file and its compressed copy are gone from the directory.
C11_WorkingFilesRemoved ==
    [][\A t \in Tasks :
          (InSendVideo(t) /\ tasks'[t].pc = "done") =>
              /\ ~Exists(files', tasks[t].filepath)
              /\ ~Exists(files', CompressedPath(tasks[t].filepath))]_vars

\* C12: a transcoder failure of any kind does not end the Job: from
\* Compressing the Job goes on to Delivering, with the original file as the
\* file to send when the transcoder failed.
C12_TranscoderFailureRecovered ==
    [][\A t \in Tasks :
          (tasks[t].pc = "sv_compress" /\ tasks'[t] # tasks[t]) =>
              /\ tasks'[t].pc = "sv_send"
              /\ tasks'[t].file_to_send \in
                    {tasks[t].filepath, CompressedPath(tasks[t].filepath)}]_vars

\* C13: send_video calls the transcoder exactly when the file it measured is
\* larger than 50 MiB; a file of 50 MiB or less is sent as it is, without a
\* change to the directory.
C13_CompressIffOverLimit ==
    [][\A t \in Tasks :
          (tasks[t].pc = "sv_size" /\ InSendVideo(t)') =>
              /\ (tasks'[t].pc = "sv_compress") <=> (tasks'[t].size > 50 * MiB)
              /\ tasks'[t].size = getsize(files, tasks'[t].filepath)
              /\ tasks'[t].pc = "sv_send" =>
                    /\ tasks'[t].file_to_send = tasks'[t].filepath
                    /\ files' = files]_vars

\* One Job is about to send a file of exactly 50 MiB uncompressed while
\* another, with a file one byte larger, is about to compress.
C13_Witness ==
    \E t1, t2 \in Tasks :
        /\ tasks[t1].pc = "sv_send" /\ tasks[t1].size = 50 * MiB
        /\ tasks[t1].file_to_send = tasks[t1].filepath
        /\ tasks[t1].cause = "none"
        /\ tasks[t2].pc = "sv_compress" /\ tasks[t2].size = 50 * MiB + 1

\* The options of a keyboard before the last one.
VideoOptions(buttons) == 1 .. (Len(buttons) - 1)

\* The variant has a height and a recognised container.
Eligible(fmt) == fmt.height # 0 /\ fmt.ext \in {"mp4", "webm"}

\* The label of the option of a video variant.
Label(fmt) == HeightString(fmt.height) \o <<"p">>

\* The place of the first eligible variant with this label in the list.
FirstOccurrence(formats, label) ==
    CHOOSE j \in 1 .. Len(formats) :
        /\ Eligible(formats[j]) /\ Label(formats[j]) = label
        /\ \A i \in 1 .. (j - 1) : ~(Eligible(formats[i]) /\ Label(formats[i]) = label)

\* The keyboard is a catalog of the list of variants: it is not empty, ends
\* with the one audio-only option, no two options have the same label, every
\* video option is an eligible variant of the list, every eligible variant
\* has its option, and the options stand in the order of first occurrence.
IsCatalogOf(buttons, formats) ==
    /\ Len(buttons) >= 1
    /\ buttons[Len(buttons)].text = <<"Audio Only">>
    /\ \A i \in VideoOptions(buttons) : buttons[i].text # <<"Audio Only">>
    /\ \A i, j \in 1 .. Len(buttons) : i # j => buttons[i].text # buttons[j].text
    /\ \A i \in VideoOptions(buttons) :
          \E j \in 1 .. Len(formats) :
              Eligible(formats[j]) /\ Label(formats[j]) = buttons[i].text
    /\ \A j \in 1 .. Len(formats) :
          Eligible(formats[j]) =>
              \E i \in VideoOptions(buttons) : buttons[i].text = Label(formats[j])
    /\ \A i, j \in VideoOptions(buttons) :
          i < j => FirstOccurrence(formats, buttons[i].text)
                   < FirstOccurrence(formats, buttons[j].text)

\* C14: the keyboard process_download puts on display for a list of variants
\* is a catalog of that list: not empty, one audio-only option at the end,
\* no label twice (the first variant of a height is kept), and video options
\* only for variants with a height and a recognised container.
C14_CatalogWellFormed ==
    [][\A t \in Tasks :
          (tasks[t].pc = "pd_info" /\ tasks'[t].outcome = "offered") =>
              /\ \E k \in keyboards' : k.user = tasks[t].user /\ k.url = tasks[t].url
              /\ \A k \in keyboards' \ keyboards :
                    IsCatalogOf(k.buttons, tasks'[t].formats)]_vars

\* A menu is on display for a list with two variants of the same height, and
\* it holds that height once.
C14_Witness ==
    \E t \in Tasks, k \in keyboards :
        /\ tasks[t].pc = "pd_finally" /\ tasks[t].outcome = "offered"
        /\ tasks[t].formats = << [height |-> 720, ext |-> "mp4"],
                                 [height |-> 720, ext |-> "webm"] >>
        /\ k.user = tasks[t].user
        /\ Len(k.buttons) = 2 /\ k.buttons[1].text = <<"7", "2", "0", "p">>

\* The height a video option shows.
LabelHeight(text) == CHOOSE h \in {1080, 720, 480, 360} : HeightString(h) \o <<"p">> = text

\* C15: on every menu on display the video options stand in descending
\* order of height, before the audio-only option.
C15_DescendingResolution ==
    \A k \in keyboards :
        /\ k.buttons[Len(k.buttons)].text = <<"Audio Only">>
        /\ \A i, j \in VideoOptions(k.buttons) :
              i < j => LabelHeight(k.buttons[i].text) > LabelHeight(k.buttons[j].text)

\* C16: a failure of the extractor or of the fetch whose text asks for a
\* sign-in or for cookies ends the Job with the auth guidance, at whichever
\* stage it is raised; every other such failure ends it with the download
\* error.
C16_AuthErrorsMapped ==
    \A t \in Tasks :
        /\ tasks[t].cause = "auth" => tasks[t].outcome = "auth_required"
        /\ tasks[t].cause = "other" => tasks[t].outcome = "download_error"

\* C17: two Jobs of different requesters that are in the pipeline at the
\* same time do not work on the same path.
C17_PathsNeverCollide ==
    \A t1, t2 \in Tasks :
        (/\ Downloading(t1) /\ Downloading(t2)
         /\ tasks[t1].user # tasks[t2].user
         /\ tasks[t1].filepath # <<>> /\ tasks[t2].filepath # <<>>) =>
            /\ tasks[t1].filepath # tasks[t2].filepath
            /\ CompressedPath(tasks[t1].filepath) # CompressedPath(tasks[t2].filepath)

\* C18: a refresh that fails during construction leaves the cookie file as
\* it was and ends load_cookies_on_startup normally; when the constructor
\* returns, the bot serves, the cookie file is still as it was, and a
\* handler slot is free for a download request.
C18_StartupFailureNotFatal ==
    [][\A t \in Tasks :
          /\ (tasks[t].kind = "startup" /\ tasks[t].pc = "rf_fetch"
              /\ tasks'[t].outcome = "refresh_failed") =>
                /\ tasks'[t].pc = "done"
                /\ cookies_file' = cookies_file
          /\ (tasks[t].kind = "startup" /\ tasks[t].pc = "done"
              /\ tasks'[t] # tasks[t]) =>
                /\ Serving'
                /\ cookies_file' = cookies_file
                /\ \E s \in Tasks : FreeTask(s)']_vars

\* The startup refresh has failed (a refresh source is configured and there
\* is still no cookie file), the bot serves, and a download request has been
\* admitted.
C18_Witness ==
    /\ COOKIE_URL # "" /\ cookies_file = NoFile
    /\ Serving
    /\ \E t \in Tasks : tasks[t].pc = "pd_info"

\* C19: for a selection made on a menu, the format selector given to the
\* fetcher is the audio selector for the audio-only option and, for the
\* option of height N, bounds the height by N.
C19_SelectorBoundsHeight ==
    \A t \in Tasks :
        (tasks[t].pc = "dl_fetch" /\ tasks[t].matched) =>
            tasks[t].format =
                IF tasks[t].quality = <<"audio">> THEN <<"bestaudio/best">>
                ELSE <<"best[height<=">> \o tasks[t].quality \o <<"]">>

\* A download request that has passed the checks of lines 144-151 and has
\* not released the slot.
Admitted(t) == tasks[t].pc \in {"pd_acquire", "pd_info", "pd_finally"}

\* C20: of two download requests of one requester that are handled at the
\* same time, at most one is admitted.
C20_AtomicAcquire ==
    \A t1, t2 \in Tasks :
        (t1 # t2 /\ Admitted(t1) /\ Admitted(t2)) => tasks[t1].user # tasks[t2].user

\* C21: compress_video writes to a path other than its input, and the
\* original file, when it was there as compress_video was called, is still
\* there when it returns or raises.
C21_CompressKeepsOriginal ==
    [][\A t \in Tasks :
          (tasks[t].pc = "sv_compress" /\ tasks'[t] # tasks[t]) =>
              /\ CompressedPath(tasks[t].filepath) # tasks[t].filepath
              /\ Exists(files, tasks[t].filepath) => Exists(files', tasks[t].filepath)]_vars

\* The refresh command and the document upload.
CredentialHandlers == {"update_cookies", "handle_document"}

\* C22: a refresh command or a document upload of a requester outside
\* ADMIN_IDS is refused at once, and neither the refusal nor the handler's
\* return changes the cookie file; no such handler ever gets past the test.
C22_OnlyAdminsChangeCredentials ==
    [][\A t \in Tasks :
          /\ (tasks'[t].kind \in CredentialHandlers /\ tasks'[t].user \notin ADMIN_IDS) =>
                /\ tasks'[t].pc = "done" /\ tasks'[t].outcome = "not_admin"
                /\ tasks'[t] # tasks[t] => cookies_file' = cookies_file
          /\ (tasks[t].kind \in CredentialHandlers /\ tasks[t].user \notin ADMIN_IDS
              /\ tasks'[t] # tasks[t]) =>
                cookies_file' = cookies_file]_vars

\* A refresh command and an upload of requester 2, who is no admin, have
\* been refused, with the working cookie file in place.
C22_Witness ==
    /\ cookies_file = [exists |-> TRUE, content |-> CookiesOld]
    /\ \E t1, t2 \in Tasks :
          /\ tasks[t1] = Done("update_cookies", 2, "not_admin")
          /\ tasks[t2] = Done("handle_document", 2, "not_admin")

\* The label of the option that stands for a quality string.
OptionText(quality) ==
    IF quality = <<"audio">> THEN <<"Audio Only">> ELSE quality \o <<"p">>

\* C23: when a button of a menu is pressed, the URL and the quality that
\* handle_callback passes to perform_download are the URL the menu was built
\* for and the option of the pressed button.
C23_PayloadRoundTrip ==
    [][\A t \in Tasks :
          (tasks[t] = Idle /\ tasks'[t].kind = "perform_download"
           /\ tasks'[t].matched) =>
              \E k \in keyboards \ keyboards' :
                  /\ validate_youtube_url(k.url)
                  /\ tasks'[t].url = k.url
                  /\ \E i \in 1 .. Len(k.buttons) :
                        /\ k.buttons[i].text = OptionText(tasks'[t].quality)
                        /\ k.buttons[i].callback_data =
                              CallbackData(k.url, tasks'[t].quality)]_vars

\* The 720p button of a menu for a URL whose video id holds a hyphen and an
\* underscore has been pressed, and the download has that URL and quality.
C23_Witness ==
    \E t \in Tasks :
        /\ tasks[t].pc = "dl_extract" /\ tasks[t].matched
        /\ tasks[t].url = UrlWatch
        /\ tasks[t].quality = <<"7", "2", "0">>

=============================================================================
